---- MODULE Spec2Model ----
(***************************************************************************)
(* The Civo Terraform provider's firewall, firewall rule and volume        *)
(* attachment resources (src/civo/resource_firewall_rule.go and            *)
(* src/unnamed/part_000) as a state machine.                               *)
(*                                                                         *)
(* State: the shared API client's Region field, the local resource data    *)
(* (schema.ResourceData) of each resource, the remote objects the vendor   *)
(* API holds, and a record of the operation that ran last (its remote      *)
(* calls with the region each was issued under, and its diagnostic).       *)
(* Every handler is one action.  The vendor SDK is the environment: each   *)
(* remote call answers from the remote state unless a fault is injected,   *)
(* and another actor may change the remote state between two handlers or   *)
(* between two calls of one handler.  The handlers of one resource type    *)
(* read and write no resource of another type, so a behaviour follows the  *)
(* resources of one type (resType): one firewall, two firewall rules or    *)
(* one volume attachment, all on the same API client.                      *)
(***************************************************************************)
EXTENDS Integers, Sequences, FiniteSets, TLC

VARIABLES resType, clientRegion, fw, rules, va, remoteFw, remoteRules, remoteVol, last

vars == <<resType, clientRegion, fw, rules, va, remoteFw, remoteRules, remoteVol, last>>

(***************************************************************************)
(* Bounds and input sets                                                   *)
(***************************************************************************)
\* how many firewall identifiers the remote API has to hand out
MaxFirewalls == 1
\* how many firewall rule identifiers the remote API has to hand out
MaxRules == 2

\* d.Id() == "": identifiers are sequences, the empty string is the empty one
EmptyId == <<>>
\* the n-th identifier the remote API allocates
MkId(n) == <<n>>
\* the identifier of a firewall that exists before the provider runs
ExistingFirewall == MkId(0)
\* an identifier the remote API never allocated
BogusId == MkId(MaxFirewalls + MaxRules + 1)

\* the region configured globally in the provider (apiClient.Region at start)
ProviderRegion == "LON1"
\* values of a resource's optional region field; "" is "not set"
RegionInputs == {"", "NYC1"}
\* firewall names a configuration may carry
Names == {"web", "db"}
\* values of the optional network_id field; "" is "not set"
NetworkInputs == {"", "net0"}
\* network.ID of GetDefaultNetwork
DefaultNetwork == "net0"
\* the resources the host runtime manages
FwRes == "firewall"
RuleRes == {"ruleA", "ruleB"}
VaRes == "attachment"

(***************************************************************************)
(* Remote call results, as a handler sees them: (resp, err)                *)
(***************************************************************************)
\* kind is what really happened; the handlers read only err and resp
OK == [err |-> FALSE, resp |-> TRUE, kind |-> "ok"]
NotFound == [err |-> TRUE, resp |-> FALSE, kind |-> "notfound"]
FailNil == [err |-> TRUE, resp |-> FALSE, kind |-> "failure"]
FailResp == [err |-> TRUE, resp |-> TRUE, kind |-> "failure"]

\* faults of a lookup call: none, a failure with a nil response, a failure with a response
Faults == {"none", "nil", "resp"}
\* faults of a call whose response the handler discards or never reads on error
CallFaults == {"none", "nil"}

\* the result of a remote call on an object that is found or not, under a fault
Answer(found, fault) ==
    IF fault = "nil" THEN FailNil
    ELSE IF fault = "resp" THEN FailResp
    ELSE IF found THEN OK ELSE NotFound

\* one remote call as recorded: its name, the client's region when issued, its
\* arguments, what happened and whether a response came back
Call(name, region, args, out) ==
    [name |-> name, region |-> region, args |-> args, kind |-> out.kind,
     resp |-> out.resp]

\* "if region, ok := d.GetOk("region"); ok { apiClient.Region = region.(string) }"
OverwriteRegion(cr, region) == IF region # "" THEN region ELSE cr

\* f without the key k
Drop(f, k) == [x \in DOMAIN f \ {k} |-> f[x]]
\* f with key k bound to v
Put(f, k, v) == [x \in DOMAIN f \cup {k} |-> IF x = k THEN v ELSE f[x]]

(***************************************************************************)
(* Firewall                                                                *)
(***************************************************************************)
BlankFw == [id |-> EmptyId, name |-> "", region |-> "", network_id |-> ""]

\* resourceFirewallRead on resource data d, client region cr, remote firewalls rem
resourceFirewallRead(d, cr, rem, fault) ==
    LET region == OverwriteRegion(cr, d.region)
        out == Answer(d.id \in DOMAIN rem, fault)
        calls == <<Call("FindFirewall", region, <<d.id>>, out)>>
    IN  IF out.err
        THEN IF ~out.resp
             THEN [d |-> [d EXCEPT !.id = EmptyId], diag |-> "none",
                   calls |-> calls, region |-> region]
             ELSE [d |-> d, diag |-> "error", calls |-> calls, region |-> region]
        ELSE [d |-> [d EXCEPT !.name = rem[d.id].name,
                              !.network_id = rem[d.id].network_id],
              diag |-> "none", calls |-> calls, region |-> region]

\* the remote firewalls after another actor removed firewall id, or not
Interfere(rem, id, interf) == IF interf THEN Drop(rem, id) ELSE rem

\* resourceFirewallCreate that runs resourceFirewallRead and returns nil, dropping the
\* diagnostics of the Read
resourceFirewallCreate_DropsReadDiagnostics(d, cr, rem, id, fNet, fNew, interf, fFind) ==
    LET region == OverwriteRegion(cr, d.region)
        needNet == d.network_id = ""
        netOut == Answer(TRUE, fNet)
        netCalls == IF needNet
                    THEN <<Call("GetDefaultNetwork", region, <<>>, netOut)>>
                    ELSE <<>>
        networkID == IF needNet THEN DefaultNetwork ELSE d.network_id
        newOut == Answer(TRUE, fNew)
        newCall == Call("NewFirewall", region, <<d.name, networkID>>, newOut)
        rem1 == Put(rem, id, [name |-> d.name, network_id |-> networkID])
        rem2 == Interfere(rem1, id, interf)
        rd == resourceFirewallRead([d EXCEPT !.id = id], region, rem2, fFind)
    IN  IF needNet /\ netOut.err
        THEN [d |-> d, diag |-> "error", calls |-> netCalls, region |-> region,
              rem |-> rem, ret |-> EmptyId]
        ELSE IF newOut.err
        THEN [d |-> d, diag |-> "error", calls |-> Append(netCalls, newCall),
              region |-> region, rem |-> rem, ret |-> EmptyId]
        ELSE [d |-> rd.d, diag |-> "none",
              calls |-> Append(netCalls, newCall) \o rd.calls,
              region |-> rd.region, rem |-> rem2, ret |-> id]

\* resourceFirewallCreate: d carries the configuration and an empty ID
resourceFirewallCreate(d, cr, rem, id, fNet, fNew, interf, fFind) ==
    LET region == OverwriteRegion(cr, d.region)
        needNet == d.network_id = ""
        netOut == Answer(TRUE, fNet)
        netCalls == IF needNet
                    THEN <<Call("GetDefaultNetwork", region, <<>>, netOut)>>
                    ELSE <<>>
        networkID == IF needNet THEN DefaultNetwork ELSE d.network_id
        newOut == Answer(TRUE, fNew)
        newCall == Call("NewFirewall", region, <<d.name, networkID>>, newOut)
        rem1 == Put(rem, id, [name |-> d.name, network_id |-> networkID])
        rem2 == Interfere(rem1, id, interf)
        rd == resourceFirewallRead([d EXCEPT !.id = id], region, rem2, fFind)
    IN  IF needNet /\ netOut.err
        THEN [d |-> d, diag |-> "error", calls |-> netCalls, region |-> region,
              rem |-> rem, ret |-> EmptyId]
        ELSE IF newOut.err
        THEN [d |-> d, diag |-> "error", calls |-> Append(netCalls, newCall),
              region |-> region, rem |-> rem, ret |-> EmptyId]
        ELSE [d |-> rd.d, diag |-> rd.diag,
              calls |-> Append(netCalls, newCall) \o rd.calls,
              region |-> rd.region, rem |-> rem2, ret |-> id]

\* resourceFirewallUpdate without the d.HasChange("name") test
resourceFirewallUpdate_NoHasChange(prior, d, cr, rem, fRename, fFind) ==
    LET region == OverwriteRegion(cr, d.region)
        rename == d.name # ""
        out == Answer(d.id \in DOMAIN rem, fRename)
        renCalls == IF rename
                    THEN <<Call("RenameFirewall", region, <<d.id, d.name>>, out)>>
                    ELSE <<>>
        rem1 == IF rename /\ ~out.err
                THEN [rem EXCEPT ![d.id].name = d.name]
                ELSE rem
        rd == resourceFirewallRead(d, region, rem1, fFind)
    IN  IF rename /\ out.err
        THEN [d |-> d, diag |-> "error", calls |-> renCalls, region |-> region,
              rem |-> rem]
        ELSE [d |-> rd.d, diag |-> rd.diag, calls |-> renCalls \o rd.calls,
              region |-> rd.region, rem |-> rem1]

\* resourceFirewallUpdate: prior is the state before, d the planned state
resourceFirewallUpdate(prior, d, cr, rem, fRename, fFind) ==
    LET region == OverwriteRegion(cr, d.region)
        hasChange == d.name # prior.name
        rename == hasChange /\ d.name # ""
        out == Answer(d.id \in DOMAIN rem, fRename)
        renCalls == IF rename
                    THEN <<Call("RenameFirewall", region, <<d.id, d.name>>, out)>>
                    ELSE <<>>
        rem1 == IF rename /\ ~out.err
                THEN [rem EXCEPT ![d.id].name = d.name]
                ELSE rem
        rd == resourceFirewallRead(d, region, rem1, fFind)
    IN  IF rename /\ out.err
        THEN [d |-> d, diag |-> "error", calls |-> renCalls, region |-> region,
              rem |-> rem]
        ELSE [d |-> rd.d, diag |-> rd.diag, calls |-> renCalls \o rd.calls,
              region |-> rd.region, rem |-> rem1]

\* resourceFirewallDelete
resourceFirewallDelete(d, cr, rem, fFind, interf, fDelete) ==
    LET region == OverwriteRegion(cr, d.region)
        findOut == Answer(d.id \in DOMAIN rem, fFind)
        findCall == Call("FindFirewall", region, <<d.id>>, findOut)
        rem1 == Interfere(rem, d.id, interf)
        delOut == Answer(d.id \in DOMAIN rem1, fDelete)
        delCall == Call("DeleteFirewall", region, <<d.id>>, delOut)
    IN  IF findOut.err
        THEN [d |-> d, diag |-> "none", calls |-> <<findCall>>, region |-> region,
              rem |-> rem]
        ELSE IF delOut.err
        THEN [d |-> d, diag |-> "error", calls |-> <<findCall, delCall>>,
              region |-> region, rem |-> rem1]
        ELSE [d |-> d, diag |-> "none", calls |-> <<findCall, delCall>>,
              region |-> region, rem |-> Drop(rem1, d.id)]

(***************************************************************************)
(* Firewall rule                                                           *)
(***************************************************************************)
\* the rule fields a configuration may carry (protocol .. label)
RuleConfigs ==
    { [protocol |-> "tcp", start_port |-> "80", end_port |-> "",
       cidr |-> {"0.0.0.0/0"}, direction |-> "ingress", action |-> "allow",
       label |-> ""],
      [protocol |-> "udp", start_port |-> "53", end_port |-> "54",
       cidr |-> {"10.0.0.0/8"}, direction |-> "egress", action |-> "deny",
       label |-> "dns"] }

BlankCfg == [protocol |-> "", start_port |-> "", end_port |-> "", cidr |-> {},
             direction |-> "", action |-> "", label |-> ""]

BlankRule == [id |-> EmptyId, firewall_id |-> EmptyId, region |-> "", cfg |-> BlankCfg]

\* whether FindFirewallRule(firewallID, ruleID) finds a rule among the remote rules rr
RuleFound(rr, firewallID, ruleID) ==
    ruleID \in DOMAIN rr /\ rr[ruleID].firewall_id = firewallID

\* the remote rules after another actor removed rule id, or not
InterfereRule(rr, id, interf) == IF interf THEN Drop(rr, id) ELSE rr

\* resourceFirewallRuleRead with the test on resp inverted, as resourceFirewallRuleImport
\* has it: a missing rule is reported as an error and the ID is kept
resourceFirewallRuleRead_RespTestInverted(d, cr, rr, fault) ==
    LET region == OverwriteRegion(cr, d.region)
        out == Answer(RuleFound(rr, d.firewall_id, d.id), fault)
        calls == <<Call("FindFirewallRule", region, <<d.firewall_id, d.id>>, out)>>
    IN  IF out.err
        THEN IF out.resp
             THEN [d |-> [d EXCEPT !.id = EmptyId], diag |-> "none",
                   calls |-> calls, region |-> region]
             ELSE [d |-> d, diag |-> "error", calls |-> calls, region |-> region]
        ELSE [d |-> [d EXCEPT !.firewall_id = rr[d.id].firewall_id, !.cfg = rr[d.id].cfg],
              diag |-> "none", calls |-> calls, region |-> region]

\* resourceFirewallRuleRead
resourceFirewallRuleRead(d, cr, rr, fault) ==
    LET region == OverwriteRegion(cr, d.region)
        out == Answer(RuleFound(rr, d.firewall_id, d.id), fault)
        calls == <<Call("FindFirewallRule", region, <<d.firewall_id, d.id>>, out)>>
    IN  IF out.err
        THEN IF ~out.resp
             THEN [d |-> [d EXCEPT !.id = EmptyId], diag |-> "none",
                   calls |-> calls, region |-> region]
             ELSE [d |-> d, diag |-> "error", calls |-> calls, region |-> region]
        ELSE LET resp == rr[d.id]
             IN  [d |-> [d EXCEPT
                           !.firewall_id = resp.firewall_id,
                           !.cfg = [resp.cfg EXCEPT
                                      !.end_port = IF resp.cfg.end_port # ""
                                                   THEN resp.cfg.end_port
                                                   ELSE d.cfg.end_port]],
                  diag |-> "none", calls |-> calls, region |-> region]

\* resourceFirewallRuleCreate that first looks for a rule with the same field values
\* and adopts it instead of creating one
resourceFirewallRuleCreate_ReusesExisting(d, cr, remFw, rr, id, fNew, interf, fFind) ==
    LET region == OverwriteRegion(cr, d.region)
        same == {x \in DOMAIN rr : rr[x] = [firewall_id |-> d.firewall_id, cfg |-> d.cfg]}
        newOut == Answer(d.firewall_id \in DOMAIN remFw, fNew)
        newCall == Call("NewFirewallRule", region, <<d.firewall_id, d.cfg>>, newOut)
        mine == IF same # {} THEN CHOOSE x \in same : TRUE ELSE id
        rr1 == Put(rr, mine, [firewall_id |-> d.firewall_id, cfg |-> d.cfg])
        rr2 == InterfereRule(rr1, mine, interf)
        rd == resourceFirewallRuleRead([d EXCEPT !.id = mine], region, rr2, fFind)
    IN  IF same = {} /\ newOut.err
        THEN [d |-> d, diag |-> "error", calls |-> <<newCall>>, region |-> region,
              rr |-> rr, ret |-> EmptyId]
        ELSE [d |-> rd.d, diag |-> rd.diag,
              calls |-> (IF same = {} THEN <<newCall>> ELSE <<>>) \o rd.calls,
              region |-> rd.region, rr |-> rr2, ret |-> mine]

\* resourceFirewallRuleCreate: d carries the configuration and an empty ID
resourceFirewallRuleCreate(d, cr, remFw, rr, id, fNew, interf, fFind) ==
    LET region == OverwriteRegion(cr, d.region)
        newOut == Answer(d.firewall_id \in DOMAIN remFw, fNew)
        newCall == Call("NewFirewallRule", region, <<d.firewall_id, d.cfg>>, newOut)
        rr1 == Put(rr, id, [firewall_id |-> d.firewall_id, cfg |-> d.cfg])
        rr2 == InterfereRule(rr1, id, interf)
        rd == resourceFirewallRuleRead([d EXCEPT !.id = id], region, rr2, fFind)
    IN  IF newOut.err
        THEN [d |-> d, diag |-> "error", calls |-> <<newCall>>, region |-> region,
              rr |-> rr, ret |-> EmptyId]
        ELSE [d |-> rd.d, diag |-> rd.diag, calls |-> <<newCall>> \o rd.calls,
              region |-> rd.region, rr |-> rr2, ret |-> id]

\* resourceFirewallRuleDelete
resourceFirewallRuleDelete(d, cr, rr, fDelete) ==
    LET region == OverwriteRegion(cr, d.region)
        out == Answer(RuleFound(rr, d.firewall_id, d.id), fDelete)
        calls == <<Call("DeleteFirewallRule", region, <<d.firewall_id, d.id>>, out)>>
    IN  IF out.err
        THEN [d |-> d, diag |-> "error", calls |-> calls, region |-> region, rr |-> rr]
        ELSE [d |-> d, diag |-> "none", calls |-> calls, region |-> region,
              rr |-> Drop(rr, d.id)]

\* utils.ResourceCommonParseID: a composite identifier is the sequence of its
\* components; it parses when it has exactly two, the parent and the child
ResourceCommonParseID(composite) ==
    IF Len(composite) = 2
    THEN [err |-> FALSE, firewallID |-> composite[1], firewallRuleID |-> composite[2]]
    ELSE [err |-> TRUE, firewallID |-> EmptyId, firewallRuleID |-> EmptyId]

\* resourceFirewallRuleImport: d.id is the composite identifier given by the user.
\* diag "panic" is the nil pointer dereference of resp.ID
resourceFirewallRuleImport(d, cr, rr, fault) ==
    LET region == OverwriteRegion(cr, d.region)
        parsed == ResourceCommonParseID(d.id)
        out == Answer(RuleFound(rr, parsed.firewallID, parsed.firewallRuleID), fault)
        calls == <<Call("FindFirewallRule", region,
                        <<parsed.firewallID, parsed.firewallRuleID>>, out)>>
    IN  IF parsed.err
        THEN [d |-> d, diag |-> "error", calls |-> <<>>, region |-> region]
        ELSE IF out.err /\ out.resp
        THEN [d |-> d, diag |-> "error", calls |-> calls, region |-> region]
        ELSE IF ~out.resp
        THEN [d |-> d, diag |-> "panic", calls |-> calls, region |-> region]
        ELSE LET resp == rr[parsed.firewallRuleID]
             IN  [d |-> [d EXCEPT !.id = parsed.firewallRuleID,
                                  !.firewall_id = resp.firewall_id,
                                  !.cfg = resp.cfg],
                  diag |-> "none", calls |-> calls, region |-> region]

(***************************************************************************)
(* Volume attachment                                                       *)
(***************************************************************************)
Volumes == {"vol1"}
Instances == {"inst1", "inst2"}
\* the suffixes resource.PrefixedUniqueId may append
UniqueSuffixes == {"0001", "0002"}

BlankVa == [id |-> EmptyId, instance_id |-> "", volume_id |-> "", region |-> ""]

\* a volume as the remote API holds it; InstanceID "" is "attached to nothing"
NoVolume == [exists |-> FALSE, InstanceID |-> ""]
VolumeStates == {NoVolume} \cup [exists : {TRUE}, InstanceID : Instances \cup {""}]

\* what another actor may do to a volume between two remote calls
Interferences == {"none", "detach", "delete"}
InterfereVolume(rv, v, interf) ==
    IF interf = "delete" THEN [rv EXCEPT ![v] = NoVolume]
    ELSE IF interf = "detach" /\ rv[v].exists THEN [rv EXCEPT ![v].InstanceID = ""]
    ELSE rv

\* resource.PrefixedUniqueId(fmt.Sprintf("%s-%s-", instanceID, volumeID))
PrefixedUniqueId(instanceID, volumeID, suffix) == <<instanceID, volumeID, suffix>>

\* resourceVolumeAttachmentRead without the comparison of resp.InstanceID
resourceVolumeAttachmentRead_NoInstanceTest(d, cr, rv, fault) ==
    LET region == OverwriteRegion(cr, d.region)
        out == Answer(rv[d.volume_id].exists, fault)
        calls == <<Call("FindVolume", region, <<d.volume_id>>, out)>>
    IN  IF out.err
        THEN IF ~out.resp
             THEN [d |-> [d EXCEPT !.id = EmptyId], diag |-> "none",
                   calls |-> calls, region |-> region]
             ELSE [d |-> d, diag |-> "error", calls |-> calls, region |-> region]
        ELSE [d |-> d, diag |-> "none", calls |-> calls, region |-> region]

\* resourceVolumeAttachmentRead
resourceVolumeAttachmentRead(d, cr, rv, fault) ==
    LET region == OverwriteRegion(cr, d.region)
        instanceID == d.instance_id
        volumeID == d.volume_id
        out == Answer(rv[volumeID].exists, fault)
        calls == <<Call("FindVolume", region, <<volumeID>>, out)>>
    IN  IF out.err
        THEN IF ~out.resp
             THEN [d |-> [d EXCEPT !.id = EmptyId], diag |-> "none",
                   calls |-> calls, region |-> region]
             ELSE [d |-> d, diag |-> "error", calls |-> calls, region |-> region]
        ELSE IF rv[volumeID].InstanceID = "" \/ rv[volumeID].InstanceID # instanceID
        THEN [d |-> [d EXCEPT !.id = EmptyId], diag |-> "none",
              calls |-> calls, region |-> region]
        ELSE [d |-> d, diag |-> "none", calls |-> calls, region |-> region]

\* resourceVolumeAttachmentCreate without the test on volume.InstanceID: it attaches
\* whatever FindVolume reports
resourceVolumeAttachmentCreate_Attaches(d, cr, rv, suffix, fFind, fAttach, interf, fRead) ==
    LET region == OverwriteRegion(cr, d.region)
        instanceID == d.instance_id
        volumeID == d.volume_id
        findOut == Answer(rv[volumeID].exists, fFind)
        findCall == Call("FindVolume", region, <<volumeID>>, findOut)
        attOut == Answer(rv[volumeID].exists, fAttach)
        attCalls == <<Call("AttachVolume", region, <<volumeID, instanceID>>, attOut)>>
        rv1 == [rv EXCEPT ![volumeID].InstanceID = instanceID]
        rv2 == InterfereVolume(rv1, volumeID, interf)
        id == PrefixedUniqueId(instanceID, volumeID, suffix)
        rd == resourceVolumeAttachmentRead([d EXCEPT !.id = id], region, rv2, fRead)
    IN  IF findOut.err
        THEN [d |-> d, diag |-> "error", calls |-> <<findCall>>, region |-> region,
              rv |-> rv]
        ELSE IF attOut.err
        THEN [d |-> d, diag |-> "error", calls |-> <<findCall>> \o attCalls,
              region |-> region, rv |-> rv]
        ELSE [d |-> rd.d, diag |-> rd.diag,
              calls |-> <<findCall>> \o attCalls \o rd.calls,
              region |-> rd.region, rv |-> rv2]

\* resourceVolumeAttachmentCreate: d carries the configuration and an empty ID
resourceVolumeAttachmentCreate(d, cr, rv, suffix, fFind, fAttach, interf, fRead) ==
    LET region == OverwriteRegion(cr, d.region)
        instanceID == d.instance_id
        volumeID == d.volume_id
        findOut == Answer(rv[volumeID].exists, fFind)
        findCall == Call("FindVolume", region, <<volumeID>>, findOut)
        attach == rv[volumeID].InstanceID = "" \/ rv[volumeID].InstanceID # instanceID
        attOut == Answer(rv[volumeID].exists, fAttach)
        attCalls == IF attach
                    THEN <<Call("AttachVolume", region, <<volumeID, instanceID>>, attOut)>>
                    ELSE <<>>
        rv1 == IF attach THEN [rv EXCEPT ![volumeID].InstanceID = instanceID] ELSE rv
        rv2 == InterfereVolume(rv1, volumeID, interf)
        id == PrefixedUniqueId(instanceID, volumeID, suffix)
        rd == resourceVolumeAttachmentRead([d EXCEPT !.id = id], region, rv2, fRead)
    IN  IF findOut.err
        THEN [d |-> d, diag |-> "error", calls |-> <<findCall>>, region |-> region,
              rv |-> rv]
        ELSE IF attach /\ attOut.err
        THEN [d |-> d, diag |-> "error", calls |-> <<findCall>> \o attCalls,
              region |-> region, rv |-> rv]
        ELSE [d |-> rd.d, diag |-> rd.diag,
              calls |-> <<findCall>> \o attCalls \o rd.calls,
              region |-> rd.region, rv |-> rv2]

\* resourceVolumeAttachmentDelete
resourceVolumeAttachmentDelete(d, cr, rv, fDetach) ==
    LET region == OverwriteRegion(cr, d.region)
        volumeID == d.volume_id
        out == Answer(rv[volumeID].exists, fDetach)
        calls == <<Call("DetachVolume", region, <<volumeID>>, out)>>
    IN  IF out.err
        THEN [d |-> d, diag |-> "error", calls |-> calls, region |-> region, rv |-> rv]
        ELSE [d |-> d, diag |-> "none", calls |-> calls, region |-> region,
              rv |-> [rv EXCEPT ![volumeID].InstanceID = ""]]

(***************************************************************************)
(* The host runtime and the state machine                                  *)
(***************************************************************************)
\* the host keeps no state for a resource whose ID is empty
HostStore(d, blank) == IF d.id = EmptyId THEN blank ELSE d

\* the record of the operation that ran last: d0 is the resource data the handler
\* was given, pre what the handler's subject was before (prior state of an Update,
\* the remote volume of an attachment operation), interf what another actor did to
\* the remote object while the handler ran, ret the identifier a create returned
Ran(op, kind, res, d0, pre, interf, r, ret) ==
    [op |-> op, kind |-> kind, res |-> res, d0 |-> d0, pre |-> pre, interf |-> interf,
     calls |-> r.calls, diag |-> r.diag, ret |-> ret]

Removed(interf) == IF interf THEN "remove" ELSE "none"

NoOp == [op |-> "none", kind |-> "none", res |-> "none", d0 |-> BlankFw,
         pre |-> BlankFw, interf |-> "none", calls |-> <<>>, diag |-> "none",
         ret |-> EmptyId]
EnvOp == [NoOp EXCEPT !.op = "env"]

\* the rules left once the firewalls outside remFw are gone (the API deletes a
\* firewall's rules with it)
Cascade(rr, remFw) ==
    [x \in {y \in DOMAIN rr : rr[y].firewall_id \in DOMAIN remFw} |-> rr[x]]

\* the identifiers the remote API may give the next firewall and the next rule: those
\* in use nowhere, remotely or in local state
FreeFirewallIds == {n \in 1..MaxFirewalls : MkId(n) \notin DOMAIN remoteFw \cup {fw.id}}
FreeRuleIds ==
    {n \in 1..MaxRules : MkId(n) \notin DOMAIN remoteRules \cup {rules[r].id : r \in RuleRes}}
\* the identifier the remote API gives the next object it creates
FreshId(free) == MkId(CHOOSE n \in free : \A m \in free : n <= m)

\* the resource types; a behaviour follows the resources of one type (the handlers of
\* one type touch no resource of another type)
ResTypes == {"firewall", "rule", "attachment"}

Init ==
    /\ resType \in ResTypes
    /\ clientRegion = ProviderRegion
    /\ fw = BlankFw
    /\ rules = [r \in RuleRes |-> BlankRule]
    /\ va = BlankVa
    /\ remoteFw = Put(<<>>, ExistingFirewall, [name |-> "web", network_id |-> DefaultNetwork])
    /\ remoteRules = <<>>
    /\ remoteVol = [v \in Volumes |-> [exists |-> TRUE, InstanceID |-> ""]]
    /\ last = NoOp

\* In every action below the choices made for calls the handler never reaches (it
\* returns at the first failing call) are held at "none": they change nothing.
FirewallCreate ==
    /\ resType = "firewall"
    /\ fw.id = EmptyId
    /\ FreeFirewallIds # {}
    /\ \E name \in Names, region \in RegionInputs, net \in NetworkInputs,
          fNet \in CallFaults, fNew \in CallFaults, interf \in BOOLEAN, fFind \in Faults :
         /\ net # "" => fNet = "none"
         /\ fNet # "none" => fNew = "none"
         /\ (fNet # "none" \/ fNew # "none") => (~interf /\ fFind = "none")
         /\ LET d0 == [id |-> EmptyId, name |-> name, region |-> region,
                       network_id |-> net]
                r == resourceFirewallCreate(d0, clientRegion, remoteFw,
                                            FreshId(FreeFirewallIds),
                                            fNet, fNew, interf, fFind)
            IN  /\ fw' = HostStore(r.d, BlankFw)
                /\ clientRegion' = r.region
                /\ remoteFw' = r.rem
                /\ last' = Ran("Create", "firewall", FwRes, d0, BlankFw, Removed(interf), r,
                               r.ret)
    /\ UNCHANGED <<resType, rules, va, remoteRules, remoteVol>>

FirewallRead ==
    /\ resType = "firewall"
    /\ fw.id # EmptyId
    /\ \E fault \in Faults :
         LET r == resourceFirewallRead(fw, clientRegion, remoteFw, fault)
         IN  /\ fw' = HostStore(r.d, BlankFw)
             /\ clientRegion' = r.region
             /\ last' = Ran("Read", "firewall", FwRes, fw, BlankFw, "none", r, EmptyId)
    /\ UNCHANGED <<resType, rules, va, remoteFw, remoteRules, remoteVol>>

\* the planned name may be "" here: resourceFirewallUpdate tests for it itself
FirewallUpdate ==
    /\ resType = "firewall"
    /\ fw.id # EmptyId
    /\ \E name \in Names \cup {""}, region \in RegionInputs,
          fRename \in CallFaults, fFind \in Faults :
         /\ (name = fw.name \/ name = "") => fRename = "none"
         /\ fRename # "none" => fFind = "none"
         /\ LET d0 == [fw EXCEPT !.name = name, !.region = region]
                r == resourceFirewallUpdate(fw, d0, clientRegion, remoteFw, fRename, fFind)
            IN  /\ fw' = HostStore(r.d, BlankFw)
                /\ clientRegion' = r.region
                /\ remoteFw' = r.rem
                /\ last' = Ran("Update", "firewall", FwRes, d0, fw, "none", r, EmptyId)
    /\ UNCHANGED <<resType, rules, va, remoteRules, remoteVol>>

\* after a Delete that returns no error the host drops the resource from its state
FirewallDelete ==
    /\ resType = "firewall"
    /\ fw.id # EmptyId
    /\ \E fFind \in Faults, interf \in BOOLEAN, fDelete \in CallFaults :
         /\ fFind # "none" => (~interf /\ fDelete = "none")
         /\ LET r == resourceFirewallDelete(fw, clientRegion, remoteFw, fFind, interf,
                                            fDelete)
            IN  /\ fw' = IF r.diag = "none" THEN BlankFw ELSE r.d
                /\ clientRegion' = r.region
                /\ remoteFw' = r.rem
                /\ remoteRules' = Cascade(remoteRules, r.rem)
                /\ last' = Ran("Delete", "firewall", FwRes, fw, BlankFw, Removed(interf), r,
                               EmptyId)
    /\ UNCHANGED <<resType, rules, va, remoteVol>>

RuleCreate(res) ==
    /\ resType = "rule"
    /\ rules[res].id = EmptyId
    /\ FreeRuleIds # {}
    /\ \E fwid \in DOMAIN remoteFw \cup {BogusId}, cfg \in RuleConfigs,
          region \in RegionInputs, fNew \in CallFaults, interf \in BOOLEAN,
          fFind \in Faults :
         /\ fNew # "none" => (~interf /\ fFind = "none")
         /\ LET d0 == [id |-> EmptyId, firewall_id |-> fwid, region |-> region,
                       cfg |-> cfg]
                r == resourceFirewallRuleCreate(d0, clientRegion, remoteFw, remoteRules,
                                                FreshId(FreeRuleIds), fNew, interf, fFind)
            IN  /\ rules' = [rules EXCEPT ![res] = HostStore(r.d, BlankRule)]
                /\ clientRegion' = r.region
                /\ remoteRules' = r.rr
                /\ last' = Ran("Create", "rule", res, d0, BlankFw, Removed(interf), r, r.ret)
    /\ UNCHANGED <<resType, fw, va, remoteFw, remoteVol>>

RuleRead(res) ==
    /\ resType = "rule"
    /\ rules[res].id # EmptyId
    /\ \E fault \in Faults :
         LET r == resourceFirewallRuleRead(rules[res], clientRegion, remoteRules, fault)
         IN  /\ rules' = [rules EXCEPT ![res] = HostStore(r.d, BlankRule)]
             /\ clientRegion' = r.region
             /\ last' = Ran("Read", "rule", res, rules[res], BlankFw, "none", r, EmptyId)
    /\ UNCHANGED <<resType, fw, va, remoteFw, remoteRules, remoteVol>>

RuleDelete(res) ==
    /\ resType = "rule"
    /\ rules[res].id # EmptyId
    /\ \E fDelete \in CallFaults :
         LET r == resourceFirewallRuleDelete(rules[res], clientRegion, remoteRules, fDelete)
         IN  /\ rules' = [rules EXCEPT ![res] = IF r.diag = "none" THEN BlankRule ELSE r.d]
             /\ clientRegion' = r.region
             /\ remoteRules' = r.rr
             /\ last' = Ran("Delete", "rule", res, rules[res], BlankFw, "none", r, EmptyId)
    /\ UNCHANGED <<resType, fw, va, remoteFw, remoteVol>>

\* the composite identifiers a user may import: well-formed ones naming existing or
\* missing objects, and one with a single component
ImportIds ==
    {<<f, x>> : f \in DOMAIN remoteFw \cup {BogusId},
                x \in DOMAIN remoteRules \cup {BogusId}} \cup {<<BogusId>>}

\* an import starts from resource data that holds the given identifier and nothing
\* else; the host keeps the result only when the importer returns no error
RuleImport(res) ==
    /\ resType = "rule"
    /\ rules[res].id = EmptyId
    /\ \E composite \in ImportIds, fault \in Faults :
         LET d0 == [BlankRule EXCEPT !.id = composite]
             r == resourceFirewallRuleImport(d0, clientRegion, remoteRules, fault)
         IN  /\ rules' = [rules EXCEPT ![res] = IF r.diag = "none" THEN r.d ELSE BlankRule]
             /\ clientRegion' = r.region
             /\ last' = Ran("Import", "rule", res, d0, BlankFw, "none", r, EmptyId)
    /\ UNCHANGED <<resType, fw, va, remoteFw, remoteRules, remoteVol>>

VolumeAttachmentCreate ==
    /\ resType = "attachment"
    /\ va.id = EmptyId
    /\ \E inst \in Instances, vol \in Volumes, region \in RegionInputs,
          suffix \in UniqueSuffixes, fFind \in Faults, fAttach \in CallFaults,
          interf \in Interferences, fRead \in Faults :
         /\ fFind # "none" => fAttach = "none"
         /\ (fFind # "none" \/ fAttach # "none") => (interf = "none" /\ fRead = "none")
         /\ LET d0 == [id |-> EmptyId, instance_id |-> inst, volume_id |-> vol,
                       region |-> region]
                r == resourceVolumeAttachmentCreate(d0, clientRegion, remoteVol, suffix,
                                                    fFind, fAttach, interf, fRead)
            IN  /\ va' = HostStore(r.d, BlankVa)
                /\ clientRegion' = r.region
                /\ remoteVol' = r.rv
                /\ last' = Ran("Create", "attachment", VaRes, d0, remoteVol[vol], interf,
                               r, EmptyId)
    /\ UNCHANGED <<resType, fw, rules, remoteFw, remoteRules>>

VolumeAttachmentRead ==
    /\ resType = "attachment"
    /\ va.id # EmptyId
    /\ \E fault \in Faults :
         LET r == resourceVolumeAttachmentRead(va, clientRegion, remoteVol, fault)
         IN  /\ va' = HostStore(r.d, BlankVa)
             /\ clientRegion' = r.region
             /\ last' = Ran("Read", "attachment", VaRes, va, remoteVol[va.volume_id],
                            "none", r, EmptyId)
    /\ UNCHANGED <<resType, fw, rules, remoteFw, remoteRules, remoteVol>>

VolumeAttachmentDelete ==
    /\ resType = "attachment"
    /\ va.id # EmptyId
    /\ \E fDetach \in CallFaults :
         LET r == resourceVolumeAttachmentDelete(va, clientRegion, remoteVol, fDetach)
         IN  /\ va' = IF r.diag = "none" THEN BlankVa ELSE r.d
             /\ clientRegion' = r.region
             /\ remoteVol' = r.rv
             /\ last' = Ran("Delete", "attachment", VaRes, va, remoteVol[va.volume_id],
                            "none", r, EmptyId)
    /\ UNCHANGED <<resType, fw, rules, remoteFw, remoteRules>>

\* another actor deletes a firewall, a rule, or changes a volume
EnvRemoveFirewall ==
    /\ resType \in {"firewall", "rule"}
    /\ \E id \in DOMAIN remoteFw :
         /\ remoteFw' = Drop(remoteFw, id)
         /\ remoteRules' = Cascade(remoteRules, Drop(remoteFw, id))
    /\ last' = EnvOp
    /\ UNCHANGED <<resType, clientRegion, fw, rules, va, remoteVol>>

EnvRemoveRule ==
    /\ resType = "rule"
    /\ \E id \in DOMAIN remoteRules : remoteRules' = Drop(remoteRules, id)
    /\ last' = EnvOp
    /\ UNCHANGED <<resType, clientRegion, fw, rules, va, remoteFw, remoteVol>>

EnvChangeVolume ==
    /\ resType = "attachment"
    /\ \E v \in Volumes, s \in VolumeStates :
         /\ s # remoteVol[v]
         /\ remoteVol' = [remoteVol EXCEPT ![v] = s]
    /\ last' = EnvOp
    /\ UNCHANGED <<resType, clientRegion, fw, rules, va, remoteFw, remoteRules>>

Next ==
    \/ FirewallCreate
    \/ FirewallRead
    \/ FirewallUpdate
    \/ FirewallDelete
    \/ \E res \in RuleRes : RuleCreate(res)
    \/ \E res \in RuleRes : RuleRead(res)
    \/ \E res \in RuleRes : RuleDelete(res)
    \/ \E res \in RuleRes : RuleImport(res)
    \/ VolumeAttachmentCreate
    \/ VolumeAttachmentRead
    \/ VolumeAttachmentDelete
    \/ EnvRemoveFirewall
    \/ EnvRemoveRule
    \/ EnvChangeVolume

Spec == Init /\ [][Next]_vars

(***************************************************************************)
(* Properties                                                              *)
(***************************************************************************)
\* the local ID, now, of the resource the last operation ran on
CurId ==
    IF last.kind = "firewall" THEN fw.id
    ELSE IF last.kind = "rule" THEN rules[last.res].id
    ELSE va.id

\* the last operation was an operation of the provider
Handled == last.op \in {"Create", "Read", "Update", "Delete", "Import"}

\* the positions of the last operation's calls named name
CallsNamed(name) == {i \in DOMAIN last.calls : last.calls[i].name = name}

\* the last call the last operation issued
FinalCall == last.calls[Len(last.calls)]

\* no call of the last operation failed for another reason than not-found
NoFailure == \A i \in DOMAIN last.calls : last.calls[i].kind # "failure"

\* C1: a Read invoked with a non-empty ID whose lookup reports not-found leaves the
\* ID empty and returns no error, for all three resources; a volume attachment Read
\* does the same when the volume exists but is attached to nothing or to another
\* instance.
C1_ReadOfMissingClearsId ==
    (last.op = "Read" /\ last.d0.id # EmptyId) =>
        /\ last.calls[1].kind = "notfound" => (CurId = EmptyId /\ last.diag = "none")
        /\ ( /\ last.kind = "attachment"
             /\ last.calls[1].kind = "ok"
             /\ \/ last.pre.InstanceID = ""
                \/ last.pre.InstanceID # last.d0.instance_id )
           => (CurId = EmptyId /\ last.diag = "none")

\* C1 witness: a firewall rule Read found its rule gone and cleared the ID.
C1_Witness ==
    /\ last.op = "Read" /\ last.kind = "rule"
    /\ last.d0.id # EmptyId
    /\ last.calls[1].kind = "notfound"
    /\ rules[last.res].id = EmptyId
    /\ last.diag = "none"

\* C2 as claimed: a Delete one of whose remote calls reports not-found returns no
\* error, whichever resource and whichever call.
C2_DeleteOfMissingSucceeds ==
    (last.op = "Delete" /\ \E i \in DOMAIN last.calls : last.calls[i].kind = "notfound")
        => last.diag = "none"

\* C3 as claimed: an operation one of whose remote calls fails for a reason other
\* than not-found returns an error; a not-found outside a Read's or a Delete's own
\* call returns an error too.
C3_FailuresSurface ==
    Handled =>
        /\ (\E i \in DOMAIN last.calls : last.calls[i].kind = "failure")
              => last.diag = "error"
        /\ ( /\ last.op \in {"Create", "Update", "Import"}
             /\ \E i \in DOMAIN last.calls :
                   /\ last.calls[i].kind = "notfound"
                   /\ last.calls[i].name \notin {"FindFirewall", "FindFirewallRule",
                                                 "FindVolume"} )
              => last.diag = "error"

\* C4 as claimed: an operation on a resource whose region field is not set issues
\* every remote call under the provider's globally configured region.
C4_UnsetRegionUsesProviderRegion ==
    (Handled /\ last.d0.region = "") =>
        \A i \in DOMAIN last.calls : last.calls[i].region = ProviderRegion

\* the remote calls that change remote state
MutatingCalls ==
    {"NewFirewall", "RenameFirewall", "DeleteFirewall", "NewFirewallRule",
     "DeleteFirewallRule", "AttachVolume", "DetachVolume"}

\* C5: a firewall Update issues RenameFirewall only when the name differs between
\* prior and planned state and the planned name is not empty; with the name
\* unchanged it issues no mutating call; RenameFirewall, at most once, is the only
\* mutating call an Update issues.
C5_RenameOnlyOnNameChange ==
    last.op = "Update" =>
        LET changed == last.d0.name # last.pre.name
            renames == CallsNamed("RenameFirewall")
        IN  /\ renames # {} => (changed /\ last.d0.name # "")
            /\ Cardinality(renames) <= 1
            /\ \A i \in renames : last.calls[i].args = <<last.d0.id, last.d0.name>>
            /\ ~changed => \A i \in DOMAIN last.calls :
                              last.calls[i].name \notin MutatingCalls
            /\ \A i \in DOMAIN last.calls :
                  last.calls[i].name \in MutatingCalls
                     => last.calls[i].name = "RenameFirewall"

\* C5 witness: an Update with a changed name renamed the remote firewall.
C5_Witness ==
    /\ last.op = "Update"
    /\ last.d0.name # last.pre.name
    /\ CallsNamed("RenameFirewall") = {1}
    /\ last.calls[1].kind = "ok"
    /\ last.diag = "none"
    /\ fw.id \in DOMAIN remoteFw
    /\ remoteFw[fw.id].name = last.d0.name

\* C6: a volume attachment Create whose FindVolume succeeds issues no AttachVolume
\* when the volume's InstanceID already equals instance_id, and exactly one
\* AttachVolume(volume_id, instance_id) otherwise; when the volume was already
\* attached to the target, Create leaves the remote attachment as it was.
C6_AttachOnlyWhenNeeded ==
    (last.op = "Create" /\ last.kind = "attachment" /\ last.calls[1].kind = "ok") =>
        LET already == last.pre.InstanceID = last.d0.instance_id
            attaches == CallsNamed("AttachVolume")
        IN  /\ already =>
                 /\ attaches = {}
                 /\ \A i \in DOMAIN last.calls : last.calls[i].name \notin MutatingCalls
                 /\ last.interf = "none" => remoteVol[last.d0.volume_id] = last.pre
            /\ ~already =>
                 /\ Cardinality(attaches) = 1
                 /\ \A i \in attaches :
                       last.calls[i].args = <<last.d0.volume_id, last.d0.instance_id>>

\* C6 witness: a Create on a volume already attached to the target succeeded with no
\* AttachVolume call.
C6_Witness ==
    /\ last.op = "Create" /\ last.kind = "attachment"
    /\ last.calls[1].kind = "ok"
    /\ last.pre.InstanceID = last.d0.instance_id
    /\ CallsNamed("AttachVolume") = {}
    /\ last.diag = "none"
    /\ va.id # EmptyId

\* C7: when a volume attachment Create or Read returns no error and leaves a
\* non-empty ID, the volume exists and its remote InstanceID is the resource's
\* instance_id.
C7_IdentityImpliesAttached ==
    ( /\ last.op \in {"Create", "Read"} /\ last.kind = "attachment"
      /\ last.diag = "none"
      /\ va.id # EmptyId )
    => /\ remoteVol[va.volume_id].exists
       /\ remoteVol[va.volume_id].InstanceID = va.instance_id

\* C7 witness: a Create attached a volume that was attached to another instance and
\* kept its ID.
C7_Witness ==
    /\ last.op = "Create" /\ last.kind = "attachment"
    /\ last.diag = "none"
    /\ va.id # EmptyId
    /\ last.pre.InstanceID \notin {"", va.instance_id}
    /\ CallsNamed("AttachVolume") # {}
    /\ remoteVol[va.volume_id].InstanceID = va.instance_id

\* C8 as claimed: a firewall rule Create that returns no error ends with the ID its
\* own NewFirewallRule call returned, distinct from the ID of every other rule (here
\* even with no remote call failing for another reason than not-found).
C8_SuccessfulCreateKeepsOwnId ==
    (last.op = "Create" /\ last.kind = "rule" /\ last.diag = "none" /\ NoFailure) =>
        /\ CurId # EmptyId
        /\ CurId = last.ret
        /\ \A r \in RuleRes \ {last.res} : rules[r].id # CurId

\* C8 amended: a firewall rule Create that returns no error issued exactly one
\* NewFirewallRule call, with its own field values, and looked up no rule but the
\* one that call returned; if it ends with a non-empty ID, that ID is the one its
\* own call returned and differs from the ID of every other rule, identical field
\* values or not; it ends with an empty ID only when the chained Read did not get
\* the new rule back.
C8_CreateNeverReuses ==
    (last.op = "Create" /\ last.kind = "rule" /\ last.diag = "none") =>
        /\ CallsNamed("NewFirewallRule") = {1}
        /\ last.calls[1].kind = "ok"
        /\ last.calls[1].args = <<last.d0.firewall_id, last.d0.cfg>>
        /\ last.ret # EmptyId
        /\ \A i \in CallsNamed("FindFirewallRule") :
              last.calls[i].args = <<last.d0.firewall_id, last.ret>>
        /\ CurId # EmptyId =>
              /\ CurId = last.ret
              /\ \A r \in RuleRes \ {last.res} : rules[r].id # CurId
        /\ CurId = EmptyId => FinalCall.kind # "ok"

\* C8 witness: after a successful Create both rules hold an ID, the two IDs differ,
\* and the two remote rules have identical field values.
C8_Witness ==
    /\ last.op = "Create" /\ last.kind = "rule" /\ last.diag = "none"
    /\ \A r \in RuleRes : rules[r].id \in DOMAIN remoteRules
    /\ rules["ruleA"].id # rules["ruleB"].id
    /\ remoteRules[rules["ruleA"].id] = remoteRules[rules["ruleB"].id]
    /\ rules[last.res].id = last.ret

\* C9 as claimed: a firewall rule Import returns an error, or returns state whose ID
\* is the found rule's and whose firewall_id is that rule's firewall; when
\* FindFirewallRule fails or finds no rule, Import returns an error.
C9_ImportErrorsOrFinds ==
    (last.op = "Import") =>
        /\ \/ last.diag = "error"
           \/ /\ last.diag = "none"
              /\ CurId \in DOMAIN remoteRules
              /\ rules[last.res].firewall_id = remoteRules[CurId].firewall_id
        /\ (last.calls # <<>> /\ last.calls[1].kind # "ok") => last.diag = "error"

\* the identity of a Create was recorded: every call before the chained Read's
\* lookup succeeded
Recorded ==
    /\ Len(last.calls) >= 2
    /\ FinalCall.name \in {"FindFirewall", "FindFirewallRule", "FindVolume"}
    /\ \A i \in 1..(Len(last.calls) - 1) : last.calls[i].kind = "ok"

\* C10 as claimed: a Create returns an error with the ID empty, or no error with a
\* non-empty ID (here even with no remote call failing for another reason than
\* not-found).
C10_CreateErrorOrIdentity ==
    (last.op = "Create" /\ NoFailure) =>
        \/ last.diag = "error" /\ CurId = EmptyId
        \/ last.diag = "none" /\ CurId # EmptyId

\* C10 amended: a Create in which a call before the identity is recorded fails
\* returns an error with the ID empty.  Once the identity is recorded the chained
\* Read decides: it returns no error with a non-empty ID when its lookup finds the
\* object (for an attachment: attached to instance_id), no error with an EMPTY ID
\* when the lookup reports not-found or fails without a response (for an attachment
\* also: found but not attached to instance_id), and an error with the ID kept when
\* the lookup fails with a response.
C10_CreateOutcomes ==
    last.op = "Create" =>
        IF ~Recorded
        THEN last.diag = "error" /\ CurId = EmptyId
        ELSE IF FinalCall.kind = "ok"
        THEN /\ last.diag = "none"
             /\ last.kind # "attachment" => CurId # EmptyId
             /\ last.kind = "attachment" =>
                   (CurId # EmptyId <=>
                       remoteVol[last.d0.volume_id].InstanceID = last.d0.instance_id)
        ELSE IF FinalCall.resp
        THEN last.diag = "error" /\ CurId # EmptyId
        ELSE last.diag = "none" /\ CurId = EmptyId

\* C10 witness: a firewall Create whose new firewall another actor removed before
\* the chained Read returned no error with an empty ID.
C10_Witness ==
    /\ last.op = "Create" /\ last.kind = "firewall"
    /\ last.interf = "remove"
    /\ FinalCall.kind = "notfound"
    /\ last.diag = "none"
    /\ fw.id = EmptyId

====
